---- MODULE Spec2Model ----
(***************************************************************************)
(* Model of mandelbrot.py: the grid builder (np.linspace / np.meshgrid),   *)
(* the escape-time evaluator mandelbrot(c, max_iter), the column-major     *)
(* sweep that fills mandelbrot_set, and the frame callback update(frame)   *)
(* driven by FuncAnimation.                                                *)
(*                                                                         *)
(* Numbers.  A complex value is a pair <<re, im>> of integers.  The model  *)
(* only draws configurations whose coordinate sequences are integers (the  *)
(* linspace step divides the interval) and frame counts that divide 360:   *)
(* on such values every float operation of the program (z**2 + c, abs(z)   *)
(* compared with 2, frame * (360 / frames)) is exact, so integer           *)
(* arithmetic computes what the program computes.  abs(z) > 2 is           *)
(* re*re + im*im > 4.  Python's 0-based indices are kept: arrays are       *)
(* functions over 0..N-1.                                                  *)
(***************************************************************************)
EXTENDS Integers, FiniteSets, Sequences, TLC

\* ---------------------------------------------------------------- bounds
MaxHalfSpan == 2      \* the domain is [-h, h] for h in 1..MaxHalfSpan
MaxN == 5             \* sample counts per axis are drawn from 1..MaxN
MaxIter == 5          \* max_iterations is drawn from 0..MaxIter
MaxFrames == 4        \* frame counts: the divisors of 360 in 1..MaxFrames, and 60
MaxCoord == 3         \* evaluator inputs: re, im in -MaxCoord..MaxCoord
MaxParCells == 6      \* grids swept in arbitrary order have at most this many cells
Workers == 2          \* concurrent workers of the arbitrary-order sweep

\* ---------------------------------------------------- program constants
EscapeRadius == 2
FullTurn == 360
Elevation == 30
DefaultMaxIterations == 50
DefaultFrames == 60
DefaultElevation == 30
DefaultAzimuth == -60

VARIABLES
    lo, hi,            \* the interval of both axes (np.linspace(-2, 2, ...))
    width, height,     \* sample counts
    frames,            \* frame count
    max_iterations,    \* iteration bound
    x, y,              \* coordinate sequences
    X, Y,              \* np.meshgrid(x, y)
    C,                 \* the sample grid X + 1j * Y
    mandelbrot_set,    \* the escape field
    i, j,              \* the sweep's loop variables
    pc,                \* position of the module-level script
    ax,                \* the 3D axes: what the last frame callback left drawn
    evals,             \* number of calls of mandelbrot made so far
    ev_c, calls,       \* evaluator harness: the input, and the <<bound, result>> pairs returned
    claimed, worker    \* arbitrary-order sweep: cells handed out, and each worker's cell in flight

vars == <<lo, hi, width, height, frames, max_iterations, x, y, X, Y, C,
          mandelbrot_set, i, j, pc, ax, evals, ev_c, calls, claimed, worker>>

config == <<lo, hi, width, height, frames, max_iterations>>
harness == <<ev_c, calls>>
pool == <<claimed, worker>>

\* ------------------------------------------------------ complex numbers
Complex(re, im) == <<re, im>>
Add(a, b) == <<a[1] + b[1], a[2] + b[2]>>
\* z**2: (re*re - im*im) + (re*im + im*re) j
Square(z) == <<z[1] * z[1] - z[2] * z[2], z[1] * z[2] + z[2] * z[1]>>
\* abs(z)**2; abs(z) > r  <=>  AbsSquared(z) > r*r for r >= 0
AbsSquared(z) == z[1] * z[1] + z[2] * z[2]
Escaped(z) == AbsSquared(z) > EscapeRadius * EscapeRadius

\* ------------------------------------------------------------ evaluator
\* Mutant: the canonical formulation, z starts at 0 instead of c.
RECURSIVE loop_zero_start(_, _, _, _)
loop_zero_start(z, c, n, max_iter) ==
    IF n >= max_iter THEN max_iter
    ELSE IF Escaped(z) THEN n
    ELSE loop_zero_start(Add(Square(z), c), c, n + 1, max_iter)

mandelbrot_zero_start(c, max_iter) == loop_zero_start(<<0, 0>>, c, 0, max_iter)

\* Mutant: update-then-test, the escape check made after z = z**2 + c.
RECURSIVE loop_update_first(_, _, _, _)
loop_update_first(z, c, n, max_iter) ==
    IF n >= max_iter THEN max_iter
    ELSE LET z1 == Add(Square(z), c)
         IN  IF Escaped(z1) THEN n ELSE loop_update_first(z1, c, n + 1, max_iter)

mandelbrot_update_first(c, max_iter) == loop_update_first(c, c, 0, max_iter)

\* Mutant: on exhaustion the loop variable's last value is returned, not max_iter.
RECURSIVE loop_last_n(_, _, _, _)
loop_last_n(z, c, n, max_iter) ==
    IF n >= max_iter THEN (IF max_iter = 0 THEN 0 ELSE max_iter - 1)
    ELSE IF Escaped(z) THEN n
    ELSE loop_last_n(Add(Square(z), c), c, n + 1, max_iter)

mandelbrot_last_n(c, max_iter) == loop_last_n(c, c, 0, max_iter)

\* Mutant: on exhaustion the module-level max_iterations (50) is returned, not the parameter.
RECURSIVE loop_global_bound(_, _, _, _)
loop_global_bound(z, c, n, max_iter) ==
    IF n >= max_iter THEN DefaultMaxIterations
    ELSE IF Escaped(z) THEN n
    ELSE loop_global_bound(Add(Square(z), c), c, n + 1, max_iter)

mandelbrot_global_bound(c, max_iter) == loop_global_bound(c, c, 0, max_iter)

\* Mutant: a 1-based count, n + 1 returned at the escape.
RECURSIVE loop_one_based(_, _, _, _)
loop_one_based(z, c, n, max_iter) ==
    IF n >= max_iter THEN max_iter + 1
    ELSE IF Escaped(z) THEN n + 1
    ELSE loop_one_based(Add(Square(z), c), c, n + 1, max_iter)

mandelbrot_one_based(c, max_iter) == loop_one_based(c, c, 0, max_iter)

\* for n in range(max_iter): if abs(z) > 2: return n; z = z**2 + c
\* and, the loop exhausted, return max_iter.
RECURSIVE mandelbrot_loop(_, _, _, _)
mandelbrot_loop(z, c, n, max_iter) ==
    IF n >= max_iter THEN max_iter
    ELSE IF Escaped(z) THEN n
    ELSE mandelbrot_loop(Add(Square(z), c), c, n + 1, max_iter)

\* def mandelbrot(c, max_iter): z = c; the loop
mandelbrot(c, max_iter) == mandelbrot_loop(c, c, 0, max_iter)

\* ---------------------------------------------------------- grid builder
\* np.linspace(a, b, n)[k] = a + k * ((b - a) / (n - 1)); [a] when n = 1.
\* Only drawn with (b - a) a multiple of n - 1.
linspace(a, b, n) ==
    [k \in 0 .. n - 1 |-> IF n = 1 THEN a ELSE a + k * ((b - a) \div (n - 1))]

\* The sample counts for which linspace(-h, h, n) is a sequence of integers.
SampleCounts(h) == {n \in 1 .. MaxN : n = 1 \/ (2 * h) % (n - 1) = 0}

\* np.meshgrid(x, y): two arrays of shape (len(y), len(x)).
meshgrid_X(xs, ys) == [r \in DOMAIN ys |-> [k \in DOMAIN xs |-> xs[k]]]
meshgrid_Y(xs, ys) == [r \in DOMAIN ys |-> [k \in DOMAIN xs |-> ys[r]]]

\* Mutant: the axes exchanged, C = Y + 1j * X.
grid_swapped(XX, YY) ==
    [r \in DOMAIN XX |-> [k \in DOMAIN XX[r] |-> Complex(YY[r][k], XX[r][k])]]

\* C = X + 1j * Y
grid(XX, YY) ==
    [r \in DOMAIN XX |-> [k \in DOMAIN XX[r] |-> Complex(XX[r][k], YY[r][k])]]

\* np.zeros((height, width))
zeros(h, w) == [r \in 0 .. h - 1 |-> [k \in 0 .. w - 1 |-> 0]]

\* mandelbrot_set[j, i] = v
StoreCell(field, r, k, v) == [field EXCEPT ![r][k] = v]

\* The sample grid's cells as <<row, column>> pairs.
Cells == (0 .. height - 1) \X (0 .. width - 1)

\* The loop body for one cell: mandelbrot_set[j, i] = mandelbrot(C[j, i], max_iterations)
sweep_cell(field, r, k) == StoreCell(field, r, k, mandelbrot(C[r][k], max_iterations))

\* The two loops from the cell of column k, row r on, column by column:
\* for i in range(width): for j in range(height): the body
RECURSIVE sweep_from(_, _, _)
sweep_from(field, k, r) ==
    IF k >= width THEN field
    ELSE IF r >= height THEN sweep_from(field, k + 1, 0)
    ELSE sweep_from(sweep_cell(field, r, k), k, r + 1)

\* The field the program's sequential sweep produces from the zeroed array.
sequential_sweep == sweep_from(zeros(height, width), 0, 0)

\* ----------------------------------------------------------------- axes
NoTitle == <<>>
\* A freshly created or cleared 3D axes: default view, nothing drawn.
ClearedAxes ==
    [zlim |-> <<0, 1>>, contour |-> <<>>, elev |-> DefaultElevation, azim |-> DefaultAzimuth,
     title |-> NoTitle, labels |-> <<>>]

FrameCounts == {f \in 1 .. MaxFrames : FullTurn % f = 0} \cup {DefaultFrames}

\* ----------------------------------------------------------------- Init
ConfigInit ==
    /\ hi \in 1 .. MaxHalfSpan
    /\ lo = -hi
    /\ width \in SampleCounts(hi)
    /\ height \in SampleCounts(hi)
    /\ frames \in FrameCounts
    /\ max_iterations \in 0 .. MaxIter

ScriptInit ==
    /\ x = <<>> /\ y = <<>> /\ X = <<>> /\ Y = <<>> /\ C = <<>>
    /\ mandelbrot_set = <<>>
    /\ i = 0 /\ j = 0
    /\ pc = "grid"
    /\ ax = ClearedAxes
    /\ evals = 0

Init ==
    /\ ConfigInit
    /\ ScriptInit
    /\ ev_c = <<0, 0>> /\ calls = {}
    /\ claimed = {} /\ worker = [w \in 1 .. Workers |-> {}]

\* -------------------------------------------------------------- actions
\* x = np.linspace(..., width); y = np.linspace(..., height);
\* X, Y = np.meshgrid(x, y); C = X + 1j * Y
BuildGrid ==
    /\ pc = "grid"
    /\ LET xs == linspace(lo, hi, width)
           ys == linspace(lo, hi, height)
       IN  /\ x' = xs
           /\ y' = ys
           /\ X' = meshgrid_X(xs, ys)
           /\ Y' = meshgrid_Y(xs, ys)
           /\ C' = grid(meshgrid_X(xs, ys), meshgrid_Y(xs, ys))
    /\ pc' = "alloc"
    /\ UNCHANGED <<config, mandelbrot_set, i, j, ax, evals, harness, pool>>

\* mandelbrot_set = np.zeros((height, width)), and the two loops entered
AllocField ==
    /\ pc = "alloc"
    /\ mandelbrot_set' = zeros(height, width)
    /\ i' = 0 /\ j' = 0
    /\ pc' = "sweep"
    /\ UNCHANGED <<config, x, y, X, Y, C, ax, evals, harness, pool>>

\* One pass of the inner loop's body, and the loop variables' advance:
\* for i in range(width): for j in range(height):
\*     mandelbrot_set[j, i] = mandelbrot(C[j, i], max_iterations)
SweepStep ==
    /\ pc = "sweep"
    /\ i < width /\ j < height
    /\ mandelbrot_set' = sweep_cell(mandelbrot_set, j, i)
    /\ evals' = evals + 1
    /\ IF j + 1 < height
       THEN /\ j' = j + 1 /\ i' = i /\ pc' = pc
       ELSE IF i + 1 < width
            THEN /\ j' = 0 /\ i' = i + 1 /\ pc' = pc
            ELSE /\ j' = j /\ i' = i /\ pc' = "figure"
    /\ UNCHANGED <<config, x, y, X, Y, C, ax, harness, pool>>

\* fig = plt.figure(); ax = fig.add_subplot(111, projection='3d');
\* X, Y = np.meshgrid(x, y); ani = FuncAnimation(fig, update, frames=frames, ...); plt.show()
CreateAnimation ==
    /\ pc = "figure"
    /\ ax' = ClearedAxes
    /\ X' = meshgrid_X(x, y)
    /\ Y' = meshgrid_Y(x, y)
    /\ pc' = "show"
    /\ UNCHANGED <<config, x, y, C, mandelbrot_set, i, j, evals, harness, pool>>

\* Mutant: the 1-based frame number of the title used for the angle.
angle_one_based(frame) == (frame + 1) * (FullTurn \div frames)

\* angle = frame * (360 / frames)
angle(frame) == frame * (FullTurn \div frames)

\* Mutant: the callback recomputes the cell of its frame number before drawing.
update_recompute(frame) ==
    /\ pc = "show"
    /\ LET r == frame % height
           k == frame % width
       IN  /\ mandelbrot_set' = StoreCell(mandelbrot_set, r, k, mandelbrot(C[r][k], max_iterations))
           /\ evals' = evals + 1
    /\ ax' = [zlim |-> <<0, max_iterations>>,
              contour |-> mandelbrot_set',
              elev |-> Elevation, azim |-> angle(frame),
              title |-> <<frame + 1, frames>>,
              labels |-> <<"Re(c)", "Im(c)", "Iterations">>]
    /\ UNCHANGED <<config, x, y, X, Y, C, i, j, pc, harness, pool>>

\* def update(frame): ax.clear(); ax.set_zlim(0, max_iterations);
\* ax.contour3D(X, Y, mandelbrot_set, 50, ...); ax.view_init(30, angle);
\* ax.set_title(...); the three axis labels
update(frame) ==
    /\ pc = "show"
    /\ ax' = [ClearedAxes EXCEPT
                !.zlim = <<0, max_iterations>>,
                !.contour = mandelbrot_set,
                !.elev = Elevation,
                !.azim = angle(frame),
                !.title = <<frame + 1, frames>>,
                !.labels = <<"Re(c)", "Im(c)", "Iterations">>]
    /\ UNCHANGED <<config, x, y, X, Y, C, mandelbrot_set, i, j, pc, evals, harness, pool>>

\* The display loop calls update with frame indices of range(frames), in any order.
Frame == \E frame \in 0 .. frames - 1 : update(frame)

Next == BuildGrid \/ AllocField \/ SweepStep \/ CreateAnimation \/ Frame

Spec == Init /\ [][Next]_vars

\* ------------------------------------------------- evaluator on its own
\* The evaluator applied to one input c under every bound, one call at a time.
EvalInit ==
    /\ ev_c \in (-MaxCoord .. MaxCoord) \X (-MaxCoord .. MaxCoord)
    /\ calls = {}
    /\ lo = -1 /\ hi = 1 /\ width = 1 /\ height = 1
    /\ frames = DefaultFrames /\ max_iterations = 0
    /\ ScriptInit
    /\ claimed = {} /\ worker = [w \in 1 .. Workers |-> {}]

\* r = mandelbrot(c, M)
Call(M) ==
    /\ \A p \in calls : p[1] # M
    /\ calls' = calls \cup {<<M, mandelbrot(ev_c, M)>>}
    /\ UNCHANGED <<config, x, y, X, Y, C, mandelbrot_set, i, j, pc, ax, evals, ev_c, pool>>

EvalNext == \E M \in 0 .. MaxIter : Call(M)

SpecEval == EvalInit /\ [][EvalNext]_vars

\* ------------------------------------------------ sweep in arbitrary order
\* The loop body of the sweep run once per cell, the cells handed out in any order to
\* workers that each evaluate their cell and then write it: every permutation of the
\* visiting order (one worker doing all the work is a plain permutation) and every
\* interleaving of the workers' evaluations and writes.
AnyInit ==
    /\ ConfigInit
    /\ width * height <= MaxParCells
    /\ frames = DefaultFrames
    /\ ScriptInit
    /\ ev_c = <<0, 0>> /\ calls = {}
    /\ claimed = {} /\ worker = [w \in 1 .. Workers |-> {}]

\* Worker w is handed the cell of row r, column k (the loop variables take its indices)
\* and evaluates mandelbrot(C[j, i], max_iterations).
Take(w, r, k) ==
    /\ pc = "sweep"
    /\ <<r, k>> \in Cells \ claimed
    /\ worker[w] = {}
    /\ claimed' = claimed \cup {<<r, k>>}
    /\ j' = r /\ i' = k
    /\ worker' = [worker EXCEPT ![w] = {<<r, k, mandelbrot(C[r][k], max_iterations)>>}]
    /\ evals' = evals + 1
    /\ UNCHANGED <<config, x, y, X, Y, C, mandelbrot_set, pc, ax, harness>>

\* Mutant: the write indexes the field with the shared loop variables as they are when
\* the write happens (late binding), not with the worker's own cell.
Store_late_binding(w) ==
    /\ pc = "sweep"
    /\ worker[w] # {}
    /\ \E t \in worker[w] : mandelbrot_set' = StoreCell(mandelbrot_set, j, i, t[3])
    /\ worker' = [worker EXCEPT ![w] = {}]
    /\ UNCHANGED <<config, x, y, X, Y, C, i, j, pc, ax, evals, harness, claimed>>

\* Worker w writes its result: mandelbrot_set[j, i] = the value it evaluated.
Store(w) ==
    /\ pc = "sweep"
    /\ worker[w] # {}
    /\ \E t \in worker[w] : mandelbrot_set' = StoreCell(mandelbrot_set, t[1], t[2], t[3])
    /\ worker' = [worker EXCEPT ![w] = {}]
    /\ UNCHANGED <<config, x, y, X, Y, C, i, j, pc, ax, evals, harness, claimed>>

\* Every cell handed out and written: the sweep is over.
Join ==
    /\ pc = "sweep"
    /\ claimed = Cells
    /\ \A w \in 1 .. Workers : worker[w] = {}
    /\ pc' = "figure"
    /\ UNCHANGED <<config, x, y, X, Y, C, mandelbrot_set, i, j, ax, evals, harness, pool>>

AnyNext ==
    \/ BuildGrid
    \/ AllocField
    \/ \E w \in 1 .. Workers : \E r \in 0 .. height - 1, k \in 0 .. width - 1 : Take(w, r, k)
    \/ \E w \in 1 .. Workers : Store(w)
    \/ Join

SpecAnyOrder == AnyInit /\ [][AnyNext]_vars

\* ---------------------------------------------------------------- claims
\* z_k of the recurrence z_0 = c, z_{k+1} = z_k^2 + c
RECURSIVE ZSeq(_, _)
ZSeq(c, k) == IF k = 0 THEN c ELSE Add(Square(ZSeq(c, k - 1)), c)

\* r is the smallest n in [0, M) with |z_n| > 2, or M when there is none
LeastEscape(c, M, r) ==
    /\ r \in 0 .. M
    /\ \A k \in 0 .. r - 1 : ~Escaped(ZSeq(c, k))
    /\ r < M => Escaped(ZSeq(c, r))

\* C1: mandelbrot(c, M) is the smallest n in [0, M) with |z_n| > 2, where z_0 = c and
\* z_{k+1} = z_k^2 + c (the test made on z_n before the update, on c itself at n = 0),
\* and M when there is no such n.
C1_LeastEscapeIndex == \A p \in calls : LeastEscape(ev_c, p[1], p[2])

\* An input that escapes at an index n >= 2 strictly below the bound has been evaluated.
C1_Witness == \E p \in calls : p[2] >= 2 /\ p[2] < p[1]

SweepDone == pc \in {"figure", "show"}

\* C2: after the sweep the field has height rows and width columns, and the entry at row r,
\* column k is mandelbrot(x[k] + 1j * y[r], max_iterations): real part by column,
\* imaginary part by row.
C2_FieldMatchesGrid ==
    SweepDone =>
        /\ DOMAIN mandelbrot_set = 0 .. height - 1
        /\ \A r \in 0 .. height - 1 :
              /\ DOMAIN mandelbrot_set[r] = 0 .. width - 1
              /\ \A k \in 0 .. width - 1 :
                    mandelbrot_set[r][k] = mandelbrot(Complex(x[k], y[r]), max_iterations)

\* A swept grid with height # width whose field tells the real axis from the imaginary one:
\* 1 + 0j escapes at 2 and 0 + 1j never does.
C2_Witness ==
    /\ SweepDone
    /\ height # width /\ height > 1 /\ width > 1
    /\ \E r \in 0 .. height - 1, k \in 0 .. width - 1 :
          /\ x[k] = 1 /\ y[r] = 0
          /\ mandelbrot_set[r][k] = 2

\* C3: in every state every entry of the field lies in [0, max_iterations]: freshly zeroed,
\* partly filled, filled, and during the animation.
C3_EntriesInRange ==
    \A r \in DOMAIN mandelbrot_set : \A k \in DOMAIN mandelbrot_set[r] :
        mandelbrot_set[r][k] \in 0 .. max_iterations

\* A partly filled field holding both an entry equal to the bound and an entry strictly
\* between 0 and the bound.
C3_Witness ==
    /\ pc = "sweep"
    /\ max_iterations > 2
    /\ \E r \in DOMAIN mandelbrot_set : \E k \in DOMAIN mandelbrot_set[r] :
          mandelbrot_set[r][k] = max_iterations
    /\ \E r \in DOMAIN mandelbrot_set : \E k \in DOMAIN mandelbrot_set[r] :
          mandelbrot_set[r][k] \in 1 .. max_iterations - 1

\* C4: for |c| > 2 and every bound M >= 1, mandelbrot(c, M) = 0.
C4_OutsideRadiusIsZero ==
    Escaped(ev_c) => \A p \in calls : p[1] >= 1 => p[2] = 0

\* An input outside the radius has been evaluated under a bound of at least 2.
C4_Witness == Escaped(ev_c) /\ \E p \in calls : p[1] >= 2

\* C5: for c = 0 and every bound M >= 0, mandelbrot(0, M) = M.
C5_OriginReturnsBound ==
    ev_c = <<0, 0>> => \A p \in calls : p[2] = p[1]

\* The origin has been evaluated under the bound 0 and under a bound of at least 3.
C5_Witness ==
    /\ ev_c = <<0, 0>>
    /\ \E p \in calls : p[1] = 0
    /\ \E p \in calls : p[1] >= 3

\* C6: for fixed c and bounds M1 <= M2, mandelbrot(c, M1) <= mandelbrot(c, M2).
C6_MonotoneInBound ==
    \A p \in calls, q \in calls : p[1] <= q[1] => p[2] <= q[2]

\* One input evaluated under three bounds: the count grows from the first to the second
\* and stays at the escape index from the second to the third.
C6_Witness ==
    \E p \in calls, q \in calls, s \in calls :
        /\ p[1] < q[1] /\ q[1] < s[1]
        /\ p[2] < q[2] /\ q[2] = s[2]

\* The end-to-end scenario: width = height = 3 over [-1, 1], max_iterations = 5, swept.
Scenario ==
    /\ SweepDone
    /\ width = 3 /\ height = 3 /\ lo = -1 /\ hi = 1 /\ max_iterations = 5

\* C7 as stated: in the scenario the entry of the grid point -1-1j is at most 1.
C7_Original ==
    Scenario =>
        \A r \in 0 .. height - 1, k \in 0 .. width - 1 :
            C[r][k] = <<-1, -1>> => mandelbrot_set[r][k] <= 1

\* C7 as amended: in the scenario the entry of the grid point -1-1j is exactly 2
\* (z_0 = -1-1j and z_1 = -1+1j are within the radius, z_2 = -1-3j is not).
C7_EscapesAtTwo ==
    Scenario =>
        \A r \in 0 .. height - 1, k \in 0 .. width - 1 :
            C[r][k] = <<-1, -1>> => mandelbrot_set[r][k] = 2

\* The scenario has been swept and its grid holds -1-1j (at row 0, column 0).
C7_Witness == Scenario /\ C[0][0] = <<-1, -1>>

\* C8: whatever the order in which the cells are evaluated and written, by one worker or by
\* several interleaved, the completed field is the one the sequential column-major sweep
\* produces.
C8_OrderIrrelevant == pc = "figure" => mandelbrot_set = sequential_sweep

\* A sweep of at least four cells has completed with the cell of row 0, column 0 handed out
\* last (the sequential sweep hands it out first), over a field whose entries differ.
C8_Witness ==
    /\ pc = "figure"
    /\ claimed = Cells
    /\ width * height >= 4
    /\ i = 0 /\ j = 0
    /\ \E c \in Cells : mandelbrot_set[c[1]][c[2]] # mandelbrot_set[0][0]

\* C9: the field is computed once, one evaluation per grid point, after the grid is built and
\* before the first frame callback; from then on no step (no frame callback, whatever its
\* frame index) changes the field, the coordinate sequences or max_iterations, or calls
\* the evaluator.
C9_ComputedOnceThenFrozen ==
    [][/\ (pc # "show" /\ pc' = "show" =>
             /\ evals' = width' * height'
             /\ mandelbrot_set' =
                  [r \in DOMAIN C' |-> [k \in DOMAIN C'[r] |->
                      mandelbrot(C'[r][k], max_iterations')]])
       /\ (evals' # evals => pc = "sweep" /\ C = grid(meshgrid_X(x, y), meshgrid_Y(x, y)))
       /\ (ax'.title # NoTitle => pc = "show")
       /\ (pc = "show" =>
             /\ pc' = "show"
             /\ mandelbrot_set' = mandelbrot_set
             /\ x' = x /\ y' = y
             /\ max_iterations' = max_iterations
             /\ evals' = evals)]_vars

\* The last frame of a cycle of several frames has been drawn over a field of several entries
\* that are not all equal.
C9_Witness ==
    /\ pc = "show"
    /\ frames > 1
    /\ ax.title = <<frames, frames>>
    /\ evals > 1
    /\ \E r \in DOMAIN mandelbrot_set : \E k \in DOMAIN mandelbrot_set[r] :
          mandelbrot_set[r][k] # mandelbrot_set[0][0]

\* C10: once a frame callback has run for frame index f (its title says f + 1 of frames), the
\* view has azimuth f * (360 / frames), which lies in [0, 360), and elevation 30, whatever
\* was drawn before; with 60 frames the azimuth is 6 * f.
C10_ViewOfFrame ==
    ax.title # NoTitle =>
        LET f == ax.title[1] - 1
        IN  /\ f \in 0 .. frames - 1
            /\ ax.azim * frames = f * FullTurn
            /\ ax.azim >= 0 /\ ax.azim < FullTurn
            /\ ax.elev = Elevation
            /\ (frames = DefaultFrames => ax.azim = 6 * f)

\* The last of 60 frames has been drawn: azimuth 354.
C10_Witness ==
    /\ frames = DefaultFrames
    /\ ax.title = <<DefaultFrames, DefaultFrames>>
    /\ ax.azim = 354

====
